---- MODULE Spec2Model ----
(***************************************************************************)
(* Model of the stockai streaming core:                                    *)
(*   - handleWebSocket and checkPriceAlerts                                *)
(*     (internal/api/websocket_handlers.go)                                *)
(*   - BroadcastToClients and the registry lock                            *)
(*     (internal/api/websocket_handlers.go)                                *)
(*   - the notification policy of handleAnalyze and its response           *)
(*     (backend/internal/api/handlers.go)                                  *)
(*   - the shutdown path of main (cmd/server/main.go)                      *)
(* Every connection is one *websocket.Conn handle together with the        *)
(* goroutines handleWebSocket starts for it.                               *)
(***************************************************************************)
EXTENDS Integers, Sequences, FiniteSets, TLC

\* ------------------------------------------------------------ bounds
\* Total number of ticks the upstream provider delivers (over all sessions).
MaxTicks == 2
\* Largest confidence, as an integer percentage.
MaxConf == 100
\* Number of analysis requests served.
MaxAnalyses == 1
\* Total number of ticks delivered in the runs checked for liveness.
MaxLiveTicks == 1
\* Largest price and threshold when the alert test is checked on its own.
MaxPrice == 3

\* ------------------------------------------------------------ program constants
\* make(chan models.Quote, 100)
QuoteChCap == 100
\* analysis.Confidence >= 0.7, as a percentage
ConfidenceThreshold == 70

\* ------------------------------------------------------------ values
\* The *websocket.Conn handles that connect during a run.
Conns == {"c1", "c2"}
\* The ticks (models.Quote: Symbol, Price) the provider may deliver.
TickValues ==
  {[Symbol |-> "ACME", Price |-> 1], [Symbol |-> "ACME", Price |-> 2]}
AlertIds == {1, 2}
Actions == {"BUY", "SELL", "HOLD", "NONE"}

\* The alert rows of the store (models.Alert: ID, Symbol, Condition, Price).
AlertDef ==
  [id \in AlertIds |->
     IF id = 1 THEN [Symbol |-> "ACME", Condition |-> "above", Price |-> 2]
               ELSE [Symbol |-> "OTHR", Condition |-> "below", Price |-> 2]]

NoQuote == [seq |-> 0, Symbol |-> "", Price |-> 0]

VARIABLES
  hpc,        \* position of handleWebSocket for each connection
  clients,    \* s.clients: the registry
  lifecycle,  \* per connection: registrations, removals, conn.Close() calls
  ctxDone,    \* the session context of each connection is cancelled
  quoteCh,    \* the session's quote channel
  pump,       \* goroutine running provider.StreamQuotes
  reader,     \* goroutine running conn.ReadMessage
  wquote,     \* the quote the outbound loop holds while in conn.WriteJSON
  eval,       \* goroutine running checkPriceAlerts: position and locals
  ticksSent,  \* number of ticks the provider has delivered so far
  written,    \* per connection: ticks written to the client, in write order
  evald,      \* per connection: ticks received by checkPriceAlerts, in order
  events,     \* per connection: info and error events handed to conn.WriteJSON
  alerts,     \* the store: the active flag of every alert
  flagged,    \* per alert: number of TriggerAlert calls that flagged it
  notifs,     \* the notifications handed to notifyService.SendToChannels
  analysis,   \* handleAnalyze: the requests served and the last result
  readErrs,   \* the ticks for which GetActiveAlerts returned an error
  proc,       \* main: "running", "closing" (signal handled), "exited"
  probe,      \* one alert, one quote and what the alert test says of them
  bcast,      \* BroadcastToClients: position, connections left, current one
  sendDone    \* the SendToChannels tasks that have ended, each with how it ended

\* The variables the session and analysis handlers never touch.
otherVars == <<proc, probe, bcast, sendDone>>

vars == <<hpc, clients, lifecycle, ctxDone, quoteCh, pump, reader, wquote, eval,
          ticksSent, written, evald, events, alerts, flagged, notifs, analysis,
          readErrs, otherVars>>

sessionVars == <<hpc, clients, lifecycle, ctxDone, quoteCh, pump, reader, wquote,
                 eval, ticksSent, written, evald, events, alerts, flagged, notifs,
                 readErrs>>

IdleEval == [pc |-> "none", quote |-> NoQuote, pending |-> <<>>, res |-> "none"]

NoAnalysis == [pc |-> "idle", count |-> 0, Action |-> "NONE", Confidence |-> 0,
               dispatched |-> 0, responded |-> FALSE]

NoProbe == [pc |-> "none", alert |-> [Symbol |-> "", Condition |-> "", Price |-> 0],
            quote |-> NoQuote, satisfied |-> FALSE]

NoBroadcast == [pc |-> "idle", todo |-> {}, cur |-> ""]

\* s.clientsMu is read-locked: a BroadcastToClients call is between its RLock()
\* and its deferred RUnlock(). Lock() waits for as long as this holds.
RegistryReadLocked == bcast.pc # "idle"

Init ==
  /\ hpc = [c \in Conns |-> "init"]
  /\ clients = {}
  /\ lifecycle = [c \in Conns |-> [registered |-> 0, removed |-> 0, closed |-> 0]]
  /\ ctxDone = [c \in Conns |-> FALSE]
  /\ quoteCh = [c \in Conns |-> <<>>]
  /\ pump = [c \in Conns |-> "none"]
  /\ reader = [c \in Conns |-> "none"]
  /\ wquote = [c \in Conns |-> NoQuote]
  /\ eval = [c \in Conns |-> IdleEval]
  /\ ticksSent = 0
  /\ written = [c \in Conns |-> <<>>]
  /\ evald = [c \in Conns |-> <<>>]
  /\ events = [c \in Conns |-> [info |-> 0, error |-> 0]]
  /\ alerts = [id \in AlertIds |-> TRUE]
  /\ flagged = [id \in AlertIds |-> 0]
  /\ notifs = {}
  /\ analysis = NoAnalysis
  /\ readErrs = {}
  /\ proc = "running"
  /\ probe = NoProbe
  /\ bcast = NoBroadcast
  /\ sendDone = {}

\* ------------------------------------------------------------ handleWebSocket
\* s.upgrader.Upgrade fails: the handler returns before registering anything.
UpgradeFail(c) ==
  /\ hpc[c] = "init"
  /\ hpc' = [hpc EXCEPT ![c] = "done"]
  /\ UNCHANGED <<clients, lifecycle, ctxDone, quoteCh, pump, reader, wquote, eval,
                 ticksSent, written, evald, events, alerts, flagged, notifs, analysis, readErrs, otherVars>>

\* The registry after s.clients[conn] = true.
RegistryAdd(set, c) == set \cup {c}

\* Mutant of RegistryDelete: the deferred function forgets the delete.
RegistryDeleteNone(set, c) == set

\* The registry after delete(s.clients, conn).
RegistryDelete(set, c) == set \ {c}

\* Upgrade succeeds; s.clientsMu.Lock(); s.clients[conn] = true; Unlock().
Register(c) ==
  /\ hpc[c] = "init"
  /\ ~RegistryReadLocked
  /\ hpc' = [hpc EXCEPT ![c] = "config"]
  /\ clients' = RegistryAdd(clients, c)
  /\ lifecycle' = [lifecycle EXCEPT ![c].registered = @ + 1]
  /\ UNCHANGED <<ctxDone, quoteCh, pump, reader, wquote, eval, ticksSent, written,
                 evald, events, alerts, flagged, notifs, analysis, readErrs, otherVars>>

\* s.db.GetOrCreateConfig() returns an error: return (the deferred removal follows).
ConfigFail(c) ==
  /\ hpc[c] = "config"
  /\ hpc' = [hpc EXCEPT ![c] = "unregister"]
  /\ UNCHANGED <<clients, lifecycle, ctxDone, quoteCh, pump, reader, wquote, eval,
                 ticksSent, written, evald, events, alerts, flagged, notifs, analysis, readErrs, otherVars>>

\* Mutant of ConfigEmpty: the empty-symbols branch writes its info event and
\* falls through to the streaming set-up instead of idling.
ConfigEmptyFallsThrough(c) ==
  /\ hpc[c] = "config"
  /\ hpc' = [hpc EXCEPT ![c] = "loop"]
  /\ events' = [events EXCEPT ![c].info = @ + 1]
  /\ pump' = [pump EXCEPT ![c] = "running"]
  /\ reader' = [reader EXCEPT ![c] = "running"]
  /\ eval' = [eval EXCEPT ![c].pc = "select"]
  /\ UNCHANGED <<clients, lifecycle, ctxDone, quoteCh, wquote, ticksSent, written,
                 evald, alerts, flagged, notifs, analysis, readErrs, otherVars>>

\* len(cfg.TrackedSymbols) == 0: one info event is handed to conn.WriteJSON (its
\* result is not looked at) and the handler enters its own ReadMessage loop.
ConfigEmpty(c) ==
  /\ hpc[c] = "config"
  /\ hpc' = [hpc EXCEPT ![c] = "idle"]
  /\ events' = [events EXCEPT ![c].info = @ + 1]
  /\ UNCHANGED <<clients, lifecycle, ctxDone, quoteCh, pump, reader, wquote, eval,
                 ticksSent, written, evald, alerts, flagged, notifs, analysis, readErrs, otherVars>>

\* The idle loop's conn.ReadMessage returns an error: break, return.
IdleReadFail(c) ==
  /\ hpc[c] = "idle"
  /\ hpc' = [hpc EXCEPT ![c] = "unregister"]
  /\ UNCHANGED <<clients, lifecycle, ctxDone, quoteCh, pump, reader, wquote, eval,
                 ticksSent, written, evald, events, alerts, flagged, notifs, analysis, readErrs, otherVars>>

\* Mutant of ProviderFail: the return leaves without the deferred removal and
\* close.
ProviderFailNoDefer(c) ==
  /\ hpc[c] = "config"
  /\ hpc' = [hpc EXCEPT ![c] = "done"]
  /\ events' = [events EXCEPT ![c].error = @ + 1]
  /\ UNCHANGED <<clients, lifecycle, ctxDone, quoteCh, pump, reader, wquote, eval,
                 ticksSent, written, evald, alerts, flagged, notifs, analysis,
                 readErrs, otherVars>>

\* Tracked symbols are not empty and market.NewProvider fails: one error event
\* is handed to conn.WriteJSON, return.
ProviderFail(c) ==
  /\ hpc[c] = "config"
  /\ hpc' = [hpc EXCEPT ![c] = "unregister"]
  /\ events' = [events EXCEPT ![c].error = @ + 1]
  /\ UNCHANGED <<clients, lifecycle, ctxDone, quoteCh, pump, reader, wquote, eval,
                 ticksSent, written, evald, alerts, flagged, notifs, analysis, readErrs, otherVars>>

\* Tracked symbols are not empty and the provider is created: make the channel
\* and the context, start StreamQuotes, the read goroutine and checkPriceAlerts,
\* and enter the outbound loop.
StartStream(c) ==
  /\ hpc[c] = "config"
  /\ hpc' = [hpc EXCEPT ![c] = "loop"]
  /\ pump' = [pump EXCEPT ![c] = "running"]
  /\ reader' = [reader EXCEPT ![c] = "running"]
  /\ eval' = [eval EXCEPT ![c].pc = "select"]
  /\ UNCHANGED <<clients, lifecycle, ctxDone, quoteCh, wquote, ticksSent, written,
                 evald, events, alerts, flagged, notifs, analysis, readErrs, otherVars>>

\* Mutant of Cancel: the call is lost.
CancelNothing(done, c) == done

\* cancel(): the session context of connection c is done; the others are not touched.
Cancel(done, c) == [done EXCEPT ![c] = TRUE]

\* The element a receive from the channel yields.
ChanRecv(q) == Head(q)

\* Mutant of ChanRest: a receive leaves the value in the channel.
ChanRestKeep(q) == q

\* The channel after that receive.
ChanRest(q) == Tail(q)

\* Outbound loop, case <-ctx.Done(): return (the deferred cancel is a no-op).
LoopCtxDone(c) ==
  /\ hpc[c] = "loop"
  /\ ctxDone[c]
  /\ hpc' = [hpc EXCEPT ![c] = "unregister"]
  /\ UNCHANGED <<clients, lifecycle, ctxDone, quoteCh, pump, reader, wquote, eval,
                 ticksSent, written, evald, events, alerts, flagged, notifs, analysis, readErrs, otherVars>>

\* Outbound loop, case quote := <-quoteCh: the loop now calls conn.WriteJSON.
LoopRecv(c) ==
  /\ hpc[c] = "loop"
  /\ quoteCh[c] # <<>>
  /\ wquote' = [wquote EXCEPT ![c] = ChanRecv(quoteCh[c])]
  /\ quoteCh' = [quoteCh EXCEPT ![c] = ChanRest(quoteCh[c])]
  /\ hpc' = [hpc EXCEPT ![c] = "write"]
  /\ UNCHANGED <<clients, lifecycle, ctxDone, pump, reader, eval, ticksSent, written,
                 evald, events, alerts, flagged, notifs, analysis, readErrs, otherVars>>

\* conn.WriteJSON(msg) returns nil: the quote is on the client's transport.
WriteOk(c) ==
  /\ hpc[c] = "write"
  /\ written' = [written EXCEPT ![c] = Append(@, wquote[c].seq)]
  /\ wquote' = [wquote EXCEPT ![c] = NoQuote]
  /\ hpc' = [hpc EXCEPT ![c] = "loop"]
  /\ UNCHANGED <<clients, lifecycle, ctxDone, quoteCh, pump, reader, eval, ticksSent,
                 evald, events, alerts, flagged, notifs, analysis, readErrs, otherVars>>

\* Mutant of WriteFail: the write error is dropped and the loop goes on.
WriteFailIgnored(c) ==
  /\ hpc[c] = "write"
  /\ wquote' = [wquote EXCEPT ![c] = NoQuote]
  /\ hpc' = [hpc EXCEPT ![c] = "loop"]
  /\ UNCHANGED <<clients, lifecycle, ctxDone, quoteCh, pump, reader, eval, ticksSent,
                 written, evald, events, alerts, flagged, notifs, analysis, readErrs,
                 otherVars>>

\* conn.WriteJSON(msg) returns an error: return; the deferred cancel() runs.
WriteFail(c) ==
  /\ hpc[c] = "write"
  /\ wquote' = [wquote EXCEPT ![c] = NoQuote]
  /\ ctxDone' = Cancel(ctxDone, c)
  /\ hpc' = [hpc EXCEPT ![c] = "unregister"]
  /\ UNCHANGED <<clients, lifecycle, quoteCh, pump, reader, eval, ticksSent, written,
                 evald, events, alerts, flagged, notifs, analysis, readErrs, otherVars>>

\* The deferred function: Lock(); delete(s.clients, conn); Unlock(); conn.Close().
Unregister(c) ==
  /\ hpc[c] = "unregister"
  /\ ~RegistryReadLocked
  /\ clients' = RegistryDelete(clients, c)
  /\ lifecycle' = [lifecycle EXCEPT ![c].removed = @ + 1, ![c].closed = @ + 1]
  /\ hpc' = [hpc EXCEPT ![c] = "done"]
  /\ UNCHANGED <<ctxDone, quoteCh, pump, reader, wquote, eval, ticksSent, written,
                 evald, events, alerts, flagged, notifs, analysis, readErrs, otherVars>>

\* The read goroutine: conn.ReadMessage returns an error (the client went away,
\* or the handler closed the connection): cancel(); return.
ReadFail(c) ==
  /\ reader[c] = "running"
  /\ reader' = [reader EXCEPT ![c] = "done"]
  /\ ctxDone' = Cancel(ctxDone, c)
  /\ UNCHANGED <<hpc, clients, lifecycle, quoteCh, pump, wquote, eval, ticksSent,
                 written, evald, events, alerts, flagged, notifs, analysis, readErrs, otherVars>>

\* The read goroutine's ReadMessage on a connection the handler has closed: it
\* returns an error.
ReadFailClosed(c) ==
  /\ lifecycle[c].closed > 0
  /\ ReadFail(c)

\* ------------------------------------------------------------ provider.StreamQuotes
\* Mutant of ChanSend: the newest tick jumps the queue.
ChanSendFront(q, t) == <<t>> \o q

\* The channel after a send of tick t.
ChanSend(q, t) == Append(q, t)

\* The provider delivers one tick of a tracked symbol into the session's channel
\* (the send blocks while the channel is full).
PumpSend(c) ==
  /\ pump[c] = "running"
  /\ Len(quoteCh[c]) < QuoteChCap
  /\ ticksSent < MaxTicks
  /\ \E t \in TickValues :
       quoteCh' = [quoteCh EXCEPT ![c] =
                     ChanSend(@, [seq |-> ticksSent + 1, Symbol |-> t.Symbol,
                                  Price |-> t.Price])]
  /\ ticksSent' = ticksSent + 1
  /\ UNCHANGED <<hpc, clients, lifecycle, ctxDone, pump, reader, wquote, eval, written,
                 evald, events, alerts, flagged, notifs, analysis, readErrs, otherVars>>

\* StreamQuotes sees its context cancelled and returns (nil or context.Canceled).
PumpCancelled(c) ==
  /\ pump[c] = "running"
  /\ ctxDone[c]
  /\ pump' = [pump EXCEPT ![c] = "returned"]
  /\ UNCHANGED <<hpc, clients, lifecycle, ctxDone, quoteCh, reader, wquote, eval,
                 ticksSent, written, evald, events, alerts, flagged, notifs, analysis, readErrs, otherVars>>

\* StreamQuotes returns an error other than context.Canceled: the goroutine logs
\* "Stream error" and ends.
PumpError(c) ==
  /\ pump[c] = "running"
  /\ pump' = [pump EXCEPT ![c] = "failed"]
  /\ UNCHANGED <<hpc, clients, lifecycle, ctxDone, quoteCh, reader, wquote, eval,
                 ticksSent, written, evald, events, alerts, flagged, notifs, analysis, readErrs, otherVars>>

\* ------------------------------------------------------------ SendToChannels tasks
\* The intent handleAnalyze hands to the dispatcher for its request number k.
AnalysisIntent(k) ==
  [alert |-> 0, conn |-> "analyze", seq |-> k, Price |-> 0, res |-> "none"]

\* The SendToChannels tasks started by checkPriceAlerts so far and the one
\* started by handleAnalyze for its current request, and those of them that
\* have not ended.
Started ==
  notifs \cup (IF analysis.dispatched = 1 THEN {AnalysisIntent(analysis.count)} ELSE {})

Pending == {n \in Started : \A e \in sendDone : e.task # n}

\* Mutant of AwaitsDispatch: SendToChannels is called, not started with `go`.
AwaitsDispatchCall(owner) == \E n \in Pending : n.conn = owner

\* Whether the code that dispatched (the evaluator of a connection, or
\* handleAnalyze) waits for its SendToChannels tasks: they are started with
\* `go` and nothing joins them.
AwaitsDispatch(owner) == FALSE

\* ------------------------------------------------------------ checkPriceAlerts
\* Mutant of Triggered: strict comparisons.
TriggeredStrict(alert, quote) ==
  CASE alert.Condition = "above" -> quote.Price > alert.Price
    [] alert.Condition = "below" -> quote.Price < alert.Price
    [] OTHER -> FALSE

\* The switch on alert.Condition: the value of `triggered`.
Triggered(alert, quote) ==
  CASE alert.Condition = "above" -> quote.Price >= alert.Price
    [] alert.Condition = "below" -> quote.Price <= alert.Price
    [] OTHER -> FALSE

\* Mutant of Matches: the symbol test is missing.
MatchesAnySymbol(alert, quote) == Triggered(alert, quote)

\* One pass of the loop body for one alert: the symbol test, then the switch;
\* TRUE when the body reaches `if triggered` with triggered set.
Matches(alert, quote) ==
  /\ alert.Symbol = quote.Symbol
  /\ Triggered(alert, quote)

\* The alerts of the slice for which the loop body reaches `if triggered`.
Satisfied(ids, quote) ==
  {id \in ids : Matches(AlertDef[id], quote)}

\* s.db.GetActiveAlerts(): the alerts whose active flag is set.
GetActiveAlerts(store) == {id \in AlertIds : store[id]}

\* s.db.TriggerAlert(id): the alert is flagged triggered and is no longer active.
TriggerAlert(store, id) == [store EXCEPT ![id] = FALSE]

\* A set of alert ids as the slice the loop ranges over (in id order).
RECURSIVE AsSlice(_)
AsSlice(ids) ==
  IF ids = {} THEN <<>>
  ELSE LET m == CHOOSE x \in ids : \A y \in ids : x <= y
       IN <<m>> \o AsSlice(ids \ {m})

\* Mutant of EvalCtxDone: the select has no ctx.Done() case to leave by.
EvalCtxDoneIgnored(c) ==
  /\ eval[c].pc = "select"
  /\ ctxDone[c]
  /\ UNCHANGED vars

\* case <-ctx.Done(): return
EvalCtxDone(c) ==
  /\ eval[c].pc = "select"
  /\ ~AwaitsDispatch(c)
  /\ ctxDone[c]
  /\ eval' = [eval EXCEPT ![c].pc = "done"]
  /\ UNCHANGED <<hpc, clients, lifecycle, ctxDone, quoteCh, pump, reader, wquote,
                 ticksSent, written, evald, events, alerts, flagged, notifs, analysis, readErrs, otherVars>>

\* Mutant of EvalCanReceive: the evaluator is handed its ticks by the outbound
\* loop, so it gets none while a write is in progress.
EvalCanReceiveWriterIdle(c) == quoteCh[c] # <<>> /\ hpc[c] # "write"

\* case quote := <-quoteCh in checkPriceAlerts: ready when the channel holds a
\* quote, whatever the handler's outbound loop is doing.
EvalCanReceive(c) == quoteCh[c] # <<>>

\* Mutant of EvalRecvReadErr: the read error ends the evaluator (return
\* where the code has continue).
EvalRecvReadErrReturns(c) ==
  /\ eval[c].pc = "select"
  /\ ~AwaitsDispatch(c)
  /\ EvalCanReceive(c)
  /\ evald' = [evald EXCEPT ![c] = Append(@, ChanRecv(quoteCh[c]).seq)]
  /\ quoteCh' = [quoteCh EXCEPT ![c] = ChanRest(quoteCh[c])]
  /\ readErrs' = readErrs \cup {ChanRecv(quoteCh[c]).seq}
  /\ eval' = [eval EXCEPT ![c] = [IdleEval EXCEPT !.pc = "done"]]
  /\ UNCHANGED <<hpc, clients, lifecycle, ctxDone, pump, reader, wquote,
                 ticksSent, written, events, alerts, flagged, notifs, analysis,
                 otherVars>>

\* case quote := <-quoteCh, and GetActiveAlerts returns an error: continue.
EvalRecvReadErr(c) ==
  /\ eval[c].pc = "select"
  /\ ~AwaitsDispatch(c)
  /\ EvalCanReceive(c)
  /\ evald' = [evald EXCEPT ![c] = Append(@, ChanRecv(quoteCh[c]).seq)]
  /\ quoteCh' = [quoteCh EXCEPT ![c] = ChanRest(quoteCh[c])]
  /\ readErrs' = readErrs \cup {ChanRecv(quoteCh[c]).seq}
  /\ UNCHANGED <<hpc, clients, lifecycle, ctxDone, pump, reader, wquote, eval,
                 ticksSent, written, events, alerts, flagged, notifs, analysis,
                 otherVars>>

\* Mutant of LoopBodyEntry: the notification is built and dispatched first.
LoopBodyEntryDispatch == "notify"

\* Where the loop body starts for an alert found triggered: at the call of
\* s.db.TriggerAlert, which comes before the notification is built.
LoopBodyEntry == "trigger"

\* case quote := <-quoteCh, and GetActiveAlerts returns the active alerts: the
\* loop over them skips every alert of another symbol or with an unmet condition.
EvalRecv(c) ==
  /\ eval[c].pc = "select"
  /\ ~AwaitsDispatch(c)
  /\ EvalCanReceive(c)
  /\ LET quote == ChanRecv(quoteCh[c])
         todo == AsSlice(Satisfied(GetActiveAlerts(alerts), quote))
     IN /\ evald' = [evald EXCEPT ![c] = Append(@, quote.seq)]
        /\ eval' = [eval EXCEPT ![c] =
                      IF todo = <<>> THEN [IdleEval EXCEPT !.pc = "select"]
                      ELSE [pc |-> LoopBodyEntry, quote |-> quote, pending |-> todo,
                            res |-> "none"]]
  /\ quoteCh' = [quoteCh EXCEPT ![c] = ChanRest(quoteCh[c])]
  /\ UNCHANGED <<hpc, clients, lifecycle, ctxDone, pump, reader, wquote,
                 ticksSent, written, events, alerts, flagged, notifs, analysis, readErrs, otherVars>>

\* s.db.TriggerAlert(alert.ID) succeeds: an active alert is flagged; for an alert
\* already flagged the call changes nothing. The caller drops the result.
EvalTriggerOk(c) ==
  /\ eval[c].pc = "trigger"
  /\ ~AwaitsDispatch(c)
  /\ LET id == Head(eval[c].pending)
     IN /\ alerts' = TriggerAlert(alerts, id)
        /\ flagged' = [flagged EXCEPT ![id] = IF alerts[id] THEN @ + 1 ELSE @]
        /\ eval' = [eval EXCEPT ![c].pc = "notify",
                                ![c].res = IF alerts[id] THEN "flagged" ELSE "noop"]
  /\ UNCHANGED <<hpc, clients, lifecycle, ctxDone, quoteCh, pump, reader, wquote,
                 ticksSent, written, evald, events, notifs, analysis, readErrs, otherVars>>

\* s.db.TriggerAlert(alert.ID) returns an error: the store is unchanged. The
\* caller drops the result.
EvalTriggerErr(c) ==
  /\ eval[c].pc = "trigger"
  /\ ~AwaitsDispatch(c)
  /\ eval' = [eval EXCEPT ![c].pc = "notify", ![c].res = "error"]
  /\ UNCHANGED <<hpc, clients, lifecycle, ctxDone, quoteCh, pump, reader, wquote,
                 ticksSent, written, evald, events, alerts, flagged, notifs, analysis, readErrs, otherVars>>

\* Whether the evaluator goes on to build and dispatch the notification after
\* TriggerAlert returned `res` (the code does not look at the result).
DispatchAfter(res) == TRUE

\* The notification is built and `go s.notifyService.SendToChannels(...)` starts;
\* the loop goes on with the next alert of the slice.
EvalNotify(c) ==
  /\ eval[c].pc = "notify"
  /\ LET id == Head(eval[c].pending)
         rest == Tail(eval[c].pending)
     IN /\ notifs' = IF DispatchAfter(eval[c].res)
                     THEN notifs \cup {[alert |-> id, conn |-> c,
                                        seq |-> eval[c].quote.seq,
                                        Price |-> eval[c].quote.Price,
                                        res |-> eval[c].res]}
                     ELSE notifs
        /\ eval' = [eval EXCEPT ![c] =
                      IF rest = <<>> THEN [IdleEval EXCEPT !.pc = "select"]
                      ELSE [@ EXCEPT !.pc = LoopBodyEntry, !.pending = rest,
                                     !.res = "none"]]
  /\ UNCHANGED <<hpc, clients, lifecycle, ctxDone, quoteCh, pump, reader, wquote,
                 ticksSent, written, evald, events, alerts, flagged, analysis, readErrs, otherVars>>

\* ------------------------------------------------------------ handleAnalyze
\* Mutant of ShouldNotify: the threshold itself does not qualify.
ShouldNotifyStrict(action, confidence) ==
  /\ (action = "BUY" \/ action = "SELL")
  /\ confidence > ConfidenceThreshold

\* The condition under which handleAnalyze dispatches a notification.
ShouldNotify(action, confidence) ==
  /\ (action = "BUY" \/ action = "SELL")
  /\ confidence >= ConfidenceThreshold

\* analyzer.Analyze returned a result: it is saved and, if ShouldNotify,
\* `go s.notifyService.SendToChannels(...)` starts; respondJSON comes next.
AnalyzeDone ==
  /\ analysis.pc = "idle"
  /\ analysis.count < MaxAnalyses
  /\ \E action \in Actions, confidence \in 0..MaxConf :
       analysis' = [pc |-> "respond", count |-> analysis.count + 1,
                    Action |-> action, Confidence |-> confidence,
                    dispatched |-> IF ShouldNotify(action, confidence) THEN 1 ELSE 0,
                    responded |-> FALSE]
  /\ UNCHANGED <<sessionVars, otherVars>>

\* respondJSON(w, http.StatusOK, analysis): the request is answered.
AnalyzeRespond ==
  /\ analysis.pc = "respond"
  /\ ~AwaitsDispatch("analyze")
  /\ analysis' = [analysis EXCEPT !.pc = "idle", !.responded = TRUE]
  /\ UNCHANGED <<sessionVars, otherVars>>

\* A step before the analysis fails (config, provider, quote, history, analyzer):
\* respondError, return; nothing is dispatched.
AnalyzeFail ==
  /\ analysis.pc = "idle"
  /\ analysis.count < MaxAnalyses
  /\ analysis' = [NoAnalysis EXCEPT !.count = analysis.count + 1]
  /\ UNCHANGED <<sessionVars, otherVars>>

\* ------------------------------------------------------------ specifications
Next ==
  \E c \in Conns :
    \/ UpgradeFail(c) \/ Register(c)
    \/ ConfigFail(c) \/ ConfigEmpty(c) \/ IdleReadFail(c)
    \/ ProviderFail(c) \/ StartStream(c)
    \/ LoopCtxDone(c) \/ LoopRecv(c) \/ WriteOk(c) \/ WriteFail(c)
    \/ Unregister(c) \/ ReadFail(c)
    \/ PumpSend(c) \/ PumpCancelled(c) \/ PumpError(c)
    \/ EvalCtxDone(c) \/ EvalRecvReadErr(c) \/ EvalRecv(c)
    \/ EvalTriggerOk(c) \/ EvalTriggerErr(c) \/ EvalNotify(c)

Spec == Init /\ [][Next]_vars

\* The runs checked for liveness: the steps of Next, with fewer ticks.
LiveNext == Next /\ ticksSent' <= MaxLiveTicks

\* What the Go scheduler and the transport guarantee: a goroutine that can take
\* its next step takes it; a select whose ctx.Done() case stays ready is
\* eventually taken; a conn.WriteJSON in progress returns; StreamQuotes
\* returns once its context is cancelled; ReadMessage on a closed connection
\* returns. Nothing forces a client to
\* disconnect, the provider to deliver or a call to fail.
Fairness ==
  \A c \in Conns :
    /\ WF_vars(LoopCtxDone(c))
    /\ WF_vars(WriteOk(c) \/ WriteFail(c))
    /\ WF_vars(Unregister(c))
    /\ WF_vars(PumpCancelled(c))
    /\ WF_vars(EvalCtxDone(c))
    /\ WF_vars(EvalTriggerOk(c) \/ EvalTriggerErr(c))
    /\ WF_vars(EvalNotify(c))
    /\ WF_vars(ReadFailClosed(c))

FairSpec == Init /\ [][LiveNext]_vars /\ Fairness

NextAnalyze == AnalyzeDone \/ AnalyzeRespond \/ AnalyzeFail

SpecAnalyze == Init /\ [][NextAnalyze]_vars

\* ------------------------------------------------------------ BroadcastToClients
\* s.clientsMu.RLock(); defer s.clientsMu.RUnlock(): the range over s.clients
\* starts with the read lock held. (Register and Unregister hold the write
\* lock only within their own step, so RLock never waits here.)
BroadcastStart ==
  /\ bcast.pc = "idle"
  /\ bcast' = [pc |-> "range", todo |-> clients, cur |-> ""]
  /\ UNCHANGED <<sessionVars, analysis, proc, probe, sendDone>>

\* The range reaches connection c and conn.WriteJSON(msg) is called.
BroadcastWrite(c) ==
  /\ bcast.pc = "range"
  /\ c \in bcast.todo
  /\ bcast' = [pc |-> "write", todo |-> bcast.todo \ {c}, cur |-> c]
  /\ UNCHANGED <<sessionVars, analysis, proc, probe, sendDone>>

\* conn.WriteJSON(msg) returns; its result is dropped.
BroadcastWriteReturn ==
  /\ bcast.pc = "write"
  /\ bcast' = [bcast EXCEPT !.pc = "range", !.cur = ""]
  /\ UNCHANGED <<sessionVars, analysis, proc, probe, sendDone>>

\* The range is over and the deferred RUnlock() runs.
BroadcastEnd ==
  /\ bcast.pc = "range"
  /\ bcast.todo = {}
  /\ bcast' = NoBroadcast
  /\ UNCHANGED <<sessionVars, analysis, proc, probe, sendDone>>

NextBroadcast ==
  \/ LiveNext
  \/ BroadcastStart
  \/ \E c \in Conns : BroadcastWrite(c)
  \/ BroadcastWriteReturn
  \/ BroadcastEnd

SpecBroadcast == Init /\ [][NextBroadcast]_vars

\* ------------------------------------------------------------ a stalled client
\* One connection followed through all MaxTicks ticks, the other never connecting. The
\* evaluator's own steps are fair: a receive that stays ready is taken, and
\* the store calls return. Nothing is assumed of conn.WriteJSON: a write to a
\* slow client may never return.
StallConn == "c1"

StallNext ==
  /\ Next
  /\ \A d \in Conns \ {StallConn} : hpc'[d] = "init"

StallFairness ==
  /\ WF_vars(EvalRecv(StallConn) \/ EvalRecvReadErr(StallConn))
  /\ WF_vars(EvalTriggerOk(StallConn) \/ EvalTriggerErr(StallConn))
  /\ WF_vars(EvalNotify(StallConn))

StallSpec == Init /\ [][StallNext]_vars /\ StallFairness

\* ------------------------------------------------------------ the dispatcher's tasks
\* A started SendToChannels task returns, having delivered or having failed.
\* Nothing says it ever does.
SendReturn(n) ==
  /\ n \in Pending
  /\ sendDone' = sendDone \cup {[task |-> n, ok |-> TRUE]}
  /\ UNCHANGED <<sessionVars, analysis, proc, probe, bcast>>

SendFail(n) ==
  /\ n \in Pending
  /\ sendDone' = sendDone \cup {[task |-> n, ok |-> FALSE]}
  /\ UNCHANGED <<sessionVars, analysis, proc, probe, bcast>>

\* Runs of one streaming connection, or of analysis requests, together with
\* the tasks they start. The code that dispatches is fair; the tasks are not.
DispatchNext ==
  \/ analysis = NoAnalysis /\ StallNext
  \/ (\A c \in Conns : hpc[c] = "init") /\ NextAnalyze
  \/ \E n \in Started : SendReturn(n) \/ SendFail(n)

DispatchFairness ==
  /\ StallFairness
  /\ WF_vars(AnalyzeRespond)

DispatchSpec == Init /\ [][DispatchNext]_vars /\ DispatchFairness

\* ------------------------------------------------------------ the alert test alone
\* The loop body of checkPriceAlerts applied to one alert and one quote drawn
\* from small sets: symbols, conditions (one of them neither "above" nor
\* "below") and prices up to MaxPrice.
Symbols == {"ACME", "OTHR"}

Conditions == {"above", "below", "equal"}

ProbePick ==
  /\ probe.pc \in {"none", "done"}
  /\ \E sym \in Symbols, cond \in Conditions, t \in 1..MaxPrice,
        qsym \in Symbols, p \in 1..MaxPrice :
       probe' = [pc |-> "picked",
                 alert |-> [Symbol |-> sym, Condition |-> cond, Price |-> t],
                 quote |-> [seq |-> 1, Symbol |-> qsym, Price |-> p],
                 satisfied |-> FALSE]
  /\ UNCHANGED <<sessionVars, analysis, proc, bcast, sendDone>>

ProbeEval ==
  /\ probe.pc = "picked"
  /\ probe' = [probe EXCEPT !.pc = "done",
                            !.satisfied = Matches(probe.alert, probe.quote)]
  /\ UNCHANGED <<sessionVars, analysis, proc, bcast, sendDone>>

NextEval == ProbePick \/ ProbeEval

SpecEval == Init /\ [][NextEval]_vars

\* ------------------------------------------------------------ cmd/server main
\* The contexts of the process. pollingCtx is made from context.Background()
\* and handed to the polling service only; a session's context is made from
\* r.Context(), whose parent is the server's base context: httpServer sets no
\* BaseContext, so that is context.Background() as well.
Ancestors(c) == {"request", "background"}

\* cancel() of a context closes Done() of that context and of its descendants.
CancelTree(done, root) ==
  [c \in Conns |-> done[c] \/ root \in Ancestors(c)]

\* The signal goroutine: <-sigChan; pollingCancel(); httpServer.Close().
\* Close() shuts the listener and the connections the server still tracks; a
\* hijacked (upgraded) connection is not among them.
Signal ==
  /\ proc = "running"
  /\ proc' = "closing"
  /\ ctxDone' = CancelTree(ctxDone, "polling")
  /\ UNCHANGED <<hpc, clients, lifecycle, quoteCh, pump, reader, wquote, eval,
                 ticksSent, written, evald, events, alerts, flagged, notifs,
                 analysis, readErrs, probe, bcast, sendDone>>

\* ListenAndServe returns http.ErrServerClosed and main returns: the process
\* is over, and with it every goroutine, whatever it was doing.
Exit ==
  /\ proc = "closing"
  /\ proc' = "exited"
  /\ UNCHANGED <<sessionVars, analysis, probe, bcast, sendDone>>

\* A step of a session while the process lives; once the listener is closed no
\* new request arrives.
SessionStep ==
  /\ proc # "exited"
  /\ LiveNext
  /\ proc = "closing" => \A c \in Conns : hpc[c] = "init" => hpc'[c] = "init"

NextShutdown == SessionStep \/ Signal \/ Exit

SpecShutdown == Init /\ [][NextShutdown]_vars

\* ------------------------------------------------------------ properties
Range(q) == {q[i] : i \in DOMAIN q}

\* The ticks of connection c still waiting in its channel.
Queued(c) == {quoteCh[c][i].seq : i \in DOMAIN quoteCh[c]}

\* The notifications dispatched for alert a.
NotifsFor(a) == {n \in notifs : n.alert = a}

\* C1: every tick of a session reaches both consumers: a tick the alert
\* evaluator has received has been written to the client, is being written, or
\* is still waiting for the outbound loop; and a tick the outbound loop has
\* taken has been received by the evaluator or is still waiting for it.
C1_TickReachesBothConsumers ==
  \A c \in Conns :
    /\ \A n \in Range(evald[c]) :
         n \in Range(written[c]) \/ n = wquote[c].seq \/ n \in Queued(c)
    /\ \A n \in Range(written[c]) \cup ({wquote[c].seq} \ {0}) :
         n \in Range(evald[c]) \/ n \in Queued(c)

\* C2: an alert is notified exactly once per crossing, at the first tick that
\* satisfies it. With no reset of an alert (the model has none): no alert has
\* more than one notification dispatched, whatever ticks follow; and no tick
\* that satisfies a still active alert leaves the channel without reaching the
\* evaluator (a tick the outbound loop took is never evaluated).
C2_OneNotificationPerCrossing ==
  /\ \A a \in AlertIds : Cardinality(NotifsFor(a)) <= 1
  /\ \A c \in Conns :
       hpc[c] = "write" => Satisfied(GetActiveAlerts(alerts), wquote[c]) = {}

\* C3: when two evaluators process crossing ticks for the same active alert
\* concurrently and every TriggerAlert call succeeds, at most one call flags the
\* alert and at most one notification is dispatched for it.
C3_AtMostOneUnderRace ==
  \A a \in AlertIds :
    /\ flagged[a] <= 1
    /\ Cardinality({n \in NotifsFor(a) : n.res # "error"}) <= 1

\* C4: no notification is dispatched for an alert on a tick whose TriggerAlert
\* call failed.
C4_NoNotificationAfterFailedFlag ==
  \A n \in notifs : n.res # "error"

\* C5: once the read goroutine of a session has seen its read fail, the session
\* context is cancelled, and eventually StreamQuotes has returned and the
\* connection is out of the registry; the step changes nothing of any other
\* connection's session (context, handler, evaluator, pump, registry slot).
C5_DisconnectTearsDown ==
  /\ \A c \in Conns :
       (reader[c] = "done") ~>
         (ctxDone[c] /\ pump[c] # "running" /\ c \notin clients)
  /\ [][\A c \in Conns :
          (reader[c] = "running" /\ reader'[c] = "done") =>
            \A d \in Conns \ {c} :
              /\ ctxDone'[d] = ctxDone[d]
              /\ hpc'[d] = hpc[d]
              /\ eval'[d] = eval[d]
              /\ pump'[d] = pump[d]
              /\ (d \in clients') = (d \in clients)]_vars

\* A session was torn down after its read failed while its stream was open,
\* and the other session streams on with a tick evaluated.
C5_Witness ==
  \E c \in Conns, d \in Conns :
    /\ c # d
    /\ reader[c] = "done" /\ pump[c] = "returned" /\ hpc[c] = "done"
    /\ c \notin clients
    /\ hpc[d] = "loop" /\ ~ctxDone[d] /\ pump[d] = "running"
    /\ evald[d] # <<>>

\* C6: the ticks written to a connection are in upstream delivery order (the
\* provider's ticks are numbered in the order it delivers them).
C6_OutboundOrder ==
  \A c \in Conns :
    \A i \in DOMAIN written[c], j \in DOMAIN written[c] :
      i < j => written[c][i] < written[c][j]

\* Two ticks have been written to one connection.
C6_Witness == \E c \in Conns : Len(written[c]) >= 2

\* C7: a session that found no tracked symbols hands exactly one info event to
\* its connection, never starts StreamQuotes, the read goroutine or the
\* evaluator, stays registered in its idle loop, and leaves that loop only by
\* a failed read, after which it returns.
C7_EmptySymbolSetIdles ==
  /\ [](\A c \in Conns :
          /\ events[c].info <= 1
          /\ events[c].info = 1 =>
               /\ pump[c] = "none" /\ reader[c] = "none" /\ eval[c].pc = "none"
               /\ quoteCh[c] = <<>> /\ written[c] = <<>>
               /\ hpc[c] \in {"idle", "unregister", "done"}
          /\ hpc[c] = "idle" => (c \in clients /\ events[c].info = 1))
  /\ [][\A c \in Conns :
          /\ events'[c].info # events[c].info => hpc'[c] = "idle"
          /\ (hpc[c] = "idle" /\ hpc'[c] # "idle") =>
               (IdleReadFail(c) /\ hpc'[c] = "unregister")]_vars

\* A session idles on an empty symbol set beside a streaming one.
C7_Witness ==
  \E c \in Conns, d \in Conns :
    /\ hpc[c] = "idle" /\ events[c].info = 1
    /\ hpc[d] = "loop" /\ written[d] # <<>>

\* C8: a completed analysis dispatches exactly one notification if its action
\* is BUY or SELL and its confidence is at least 70 percent, and none otherwise.
C8_AnalysisNotifyPolicy ==
  analysis.responded =>
    /\ analysis.dispatched \in {0, 1}
    /\ (analysis.dispatched = 1) <=>
         (analysis.Action \in {"BUY", "SELL"} /\ analysis.Confidence >= 70)
    /\ (analysis.Action = "SELL" /\ analysis.Confidence = 65) =>
         analysis.dispatched = 0
    /\ (analysis.Action = "SELL" /\ analysis.Confidence = 71) =>
         analysis.dispatched = 1

\* SELL at exactly the threshold was analysed and notified.
C8_Witness ==
  /\ analysis.responded
  /\ analysis.Action = "SELL" /\ analysis.Confidence = 70
  /\ analysis.dispatched = 1

\* C9: a connection is in the registry exactly from its registration to its
\* removal; it is registered at most once and removed at most once, and a
\* handler that registered has removed its connection when it is done.
C9_RegistryMembership ==
  \A c \in Conns :
    /\ lifecycle[c].registered <= 1
    /\ lifecycle[c].removed <= lifecycle[c].registered
    /\ (c \in clients) <=>
         (lifecycle[c].registered = 1 /\ lifecycle[c].removed = 0)
    /\ (hpc[c] = "done" /\ lifecycle[c].registered = 1) =>
         lifecycle[c].removed = 1
    /\ Cardinality(clients) =
         Cardinality({d \in Conns : lifecycle[d].registered = 1
                                    /\ lifecycle[d].removed = 0})

\* One connection has been removed while another is registered.
C9_Witness ==
  \E c \in Conns, d \in Conns :
    /\ lifecycle[c].removed = 1 /\ c \notin clients
    /\ d \in clients /\ hpc[d] = "loop"

\* C10: a session whose StreamQuotes returned an error other than cancellation
\* has written exactly one error event to its connection by the time its
\* handler has returned (and never more than one).
C10_StreamErrorEndsSession ==
  \A c \in Conns :
    pump[c] = "failed" =>
      /\ events[c].error <= 1
      /\ hpc[c] = "done" => events[c].error = 1

C12_WriteFailureEndsOnlyThatSession ==
  /\ [][\A c \in Conns :
          (hpc[c] = "write" /\ hpc'[c] # "write" /\ written'[c] = written[c]) =>
            /\ hpc'[c] = "unregister"
            /\ ctxDone'[c]
            /\ \A d \in Conns \ {c} :
                 /\ ctxDone'[d] = ctxDone[d]
                 /\ (d \in clients') = (d \in clients)
                 /\ hpc'[d] = hpc[d]
                 /\ eval'[d] = eval[d]
                 /\ quoteCh'[d] = quoteCh[d]]_vars
  /\ \A c \in Conns : (hpc[c] = "unregister") ~> (c \notin clients)

\* One session is in its deferred removal after a write failure (its reader
\* still runs, so the cancel was the handler's) while another session is
\* registered, not cancelled, and streaming with its evaluator running.
C12_Witness ==
  \E c \in Conns : \E d \in Conns \ {c} :
    /\ hpc[c] = "unregister" /\ ctxDone[c] /\ reader[c] = "running"
    /\ d \in clients /\ ~ctxDone[d] /\ hpc[d] = "loop" /\ eval[d].pc = "select"

\* C13: in every reachable state at most one alert-evaluator task
\* (checkPriceAlerts) is running, however many connections are open.
C13_AtMostOneEvaluator ==
  Cardinality({c \in Conns : eval[c].pc \notin {"none", "done"}}) <= 1

\* C14: on process shutdown every open streaming session is cancelled and its
\* registry slot released: the signal step cancels the context of every live
\* session, and by the time the process is over no session is left streaming
\* uncancelled or registered.
C14_ShutdownCancelsSessions ==
  /\ [][(proc = "running" /\ proc' = "closing") =>
          \A c \in Conns : hpc[c] \in {"loop", "write"} => ctxDone'[c]]_vars
  /\ [](proc = "exited" =>
          \A c \in Conns : /\ hpc[c] \in {"loop", "write"} => ctxDone[c]
                           /\ c \notin clients)

\* C15: an alert with threshold T is satisfied by a tick exactly when the
\* symbols are equal and (condition "above" and price >= T) or (condition
\* "below" and price <= T); equality satisfies both directions, and a tick of
\* another symbol satisfies nothing.
C15_SatisfactionPredicate ==
  probe.pc = "done" =>
    LET a == probe.alert
        q == probe.quote
    IN /\ probe.satisfied <=>
            /\ a.Symbol = q.Symbol
            /\ \/ a.Condition = "above" /\ q.Price >= a.Price
               \/ a.Condition = "below" /\ q.Price <= a.Price
       /\ (a.Symbol = q.Symbol /\ q.Price = a.Price
             /\ a.Condition \in {"above", "below"}) => probe.satisfied
       /\ a.Symbol # q.Symbol => ~probe.satisfied

\* A "below" alert evaluated against a tick of its symbol at exactly the
\* threshold, found satisfied.
C15_Witness ==
  /\ probe.pc = "done"
  /\ probe.alert.Condition = "below"
  /\ probe.alert.Symbol = probe.quote.Symbol
  /\ probe.quote.Price = probe.alert.Price
  /\ probe.satisfied

\* C16: every notification is dispatched after the TriggerAlert call for its
\* alert on its tick has returned: a notification carries the outcome of that
\* call, a notification of a call that flagged finds the alert flagged in the
\* store, and the step that dispatches starts from the evaluator holding the
\* returned call for that alert and that tick.
C16_FlagThenNotify ==
  /\ [](\A n \in notifs :
          /\ n.res \in {"flagged", "noop", "error"}
          /\ n.res = "flagged" => (flagged[n.alert] >= 1 /\ ~alerts[n.alert]))
  /\ [][\A n \in notifs' \ notifs :
          /\ eval[n.conn].pc = "notify"
          /\ eval[n.conn].res # "none"
          /\ Head(eval[n.conn].pending) = n.alert
          /\ eval[n.conn].quote.seq = n.seq
          /\ alerts' = alerts /\ flagged' = flagged]_vars

\* A notification dispatched after its TriggerAlert call flagged the alert.
C16_Witness ==
  \E n \in notifs : n.res = "flagged" /\ flagged[n.alert] = 1 /\ ~alerts[n.alert]

\* C17: a tick whose GetActiveAlerts call failed triggers no alert and
\* dispatches no notification, and the evaluator keeps running: the step of
\* the failed read leaves store, notifications and every evaluator as they
\* were (the evaluator is back at its select), and no notification ever
\* belongs to such a tick.
C17_ReadFailureSkipsTick ==
  /\ [](\A n \in notifs : n.seq \notin readErrs)
  /\ [][readErrs' # readErrs =>
          /\ alerts' = alerts /\ flagged' = flagged /\ notifs' = notifs
          /\ eval' = eval
          /\ \E c \in Conns : eval'[c].pc = "select" /\ Len(evald'[c]) > Len(evald[c])]_vars

\* A session whose read of the alerts failed for one tick has flagged an alert
\* and dispatched its notification on a later tick.
C17_Witness ==
  \E c \in Conns : \E n \in notifs : \E i \in 1..Len(evald[c]) :
    /\ n.conn = c /\ n.res = "flagged"
    /\ evald[c][i] \in readErrs
    /\ evald[c][i] < n.seq

\* C18: while the outbound loop of a connection is stalled in a write and the
\* session is not cancelled, every tick waiting in the channel is eventually
\* received by the evaluator (or the stall ends, or the session is cancelled):
\* a slow client neither starves evaluation nor leaves the channel filling up.
C18_StalledWriterDoesNotStarve ==
  \A k \in 1..MaxTicks :
    (hpc[StallConn] = "write" /\ k \in Queued(StallConn)) ~>
      \/ k \in Range(evald[StallConn])
      \/ hpc[StallConn] # "write"
      \/ ctxDone[StallConn]

\* The write of one tick is still in progress, the session is not cancelled,
\* and a tick produced after the one being written has been evaluated.
C18_Witness ==
  /\ hpc[StallConn] = "write" /\ ~ctxDone[StallConn]
  /\ \E i \in 1..Len(evald[StallConn]) :
       evald[StallConn][i] > wquote[StallConn].seq

\* C19: a BroadcastToClients call in progress does not block the registry:
\* the lock is not held while one of its per-connection writes is under way,
\* so a connection waiting to register can register and an ended connection
\* can be removed.
C19_BroadcastDoesNotBlockRegistry ==
  bcast.pc = "write" =>
    /\ ~RegistryReadLocked
    /\ \A c \in Conns : /\ hpc[c] = "init" => ENABLED Register(c)
                        /\ hpc[c] = "unregister" => ENABLED Unregister(c)

\* C20: dispatch is fire-and-forget. With a SendToChannels task of its own
\* still not returned, the evaluator at its select can receive the next tick
\* and every queued tick is eventually taken off the channel; an analysis
\* request that dispatched can respond, and does, whether or not its task
\* ever returns.
C20_FireAndForget ==
  /\ [](\A c \in Conns :
          (eval[c].pc = "select" /\ quoteCh[c] # <<>>
             /\ \E n \in Pending : n.conn = c) =>
            ENABLED (EvalRecv(c) \/ EvalRecvReadErr(c)))
  /\ \A k \in 1..MaxTicks :
       (k \in Queued(StallConn) /\ \E n \in Pending : n.conn = StallConn) ~>
         (k \notin Queued(StallConn) \/ ctxDone[StallConn])
  /\ [](analysis.pc = "respond" => ENABLED AnalyzeRespond)
  /\ (analysis.pc = "respond") ~> analysis.responded

\* The evaluator has taken a tick that came after the tick of a notification
\* whose SendToChannels task has still not returned.
C20_Witness ==
  \E n \in Pending : \E i \in 1..Len(evald[StallConn]) :
    /\ n.conn = StallConn
    /\ evald[StallConn][i] > n.seq

\* Alert id is on the symbol of quote q and q's price meets its condition.
MetBy(id, q) ==
  /\ AlertDef[id].Symbol = q.Symbol
  /\ \/ AlertDef[id].Condition = "above" /\ q.Price >= AlertDef[id].Price
     \/ AlertDef[id].Condition = "below" /\ q.Price <= AlertDef[id].Price

\* C21: a tick changes nothing of an alert it does not satisfy. The alerts the
\* evaluator holds for TriggerAlert and notification are alerts of the tick's
\* symbol whose condition the tick's price meets; the active flag, the flag
\* count and the notifications of an alert change only in a step of an
\* evaluator holding that alert for such a tick; and the set of alerts is
\* never enlarged or reduced.
C21_UnsatisfiedAlertsUntouched ==
  /\ [](/\ DOMAIN alerts = AlertIds
        /\ \A c \in Conns :
             eval[c].pc \in {"trigger", "notify"} =>
               \A i \in 1..Len(eval[c].pending) :
                 MetBy(eval[c].pending[i], eval[c].quote))
  /\ [][\A id \in AlertIds :
          (\/ alerts'[id] # alerts[id]
           \/ flagged'[id] # flagged[id]
           \/ {n \in notifs' : n.alert = id} # {n \in notifs : n.alert = id}) =>
            \E c \in Conns :
              /\ eval[c].pc \in {"trigger", "notify"}
              /\ Head(eval[c].pending) = id
              /\ MetBy(id, eval[c].quote)]_vars

\* A tick of ACME at the threshold of the ACME alert has flagged that alert
\* and dispatched its notification, while the alert on the other symbol is
\* still active, never flagged and never notified.
C21_Witness ==
  /\ \E n \in notifs : n.alert = 1 /\ n.res = "flagged"
  /\ ~alerts[1] /\ flagged[1] = 1
  /\ alerts[2] /\ flagged[2] = 0 /\ NotifsFor(2) = {}

\* C22: a connection has one writer at a time: BroadcastToClients is never
\* inside conn.WriteJSON for a connection while that connection's outbound
\* loop is inside conn.WriteJSON for a quote.
C22_SingleWriterPerConnection ==
  \A c \in Conns : ~(bcast.pc = "write" /\ bcast.cur = c /\ hpc[c] = "write")

\* C23: whatever path the handler took after registering (config failure,
\* empty symbol set then disconnect, provider failure, cancellation, write
\* failure), once it has returned its connection is out of the registry and
\* has been closed, exactly once.
C23_ReturnedHandlerCleanedUp ==
  \A c \in Conns :
    hpc[c] = "done" =>
      /\ c \notin clients
      /\ lifecycle[c].registered = 1 =>
           (lifecycle[c].removed = 1 /\ lifecycle[c].closed = 1)
      /\ lifecycle[c].registered = 0 => lifecycle[c].closed = 0

\* Two handlers have returned after registering, one from the idle loop of the
\* empty symbol set and one from a cancelled streaming session; both
\* connections are out of the registry and closed.
C23_Witness ==
  \E c \in Conns : \E d \in Conns \ {c} :
    /\ hpc[c] = "done" /\ lifecycle[c].registered = 1
    /\ events[c].info = 1
    /\ lifecycle[c].closed = 1 /\ c \notin clients
    /\ hpc[d] = "done" /\ ctxDone[d] /\ evald[d] # <<>>
    /\ lifecycle[d].closed = 1 /\ d \notin clients

\* The ticks of connection c the session holds or has consumed: written,
\* evaluated, waiting in the channel, or in the write in progress.
Accounted(c) ==
  Len(written[c]) + Len(evald[c]) + Len(quoteCh[c])
    + (IF hpc[c] = "write" THEN 1 ELSE 0)

\* The same as sets of tick numbers.
Held(c) ==
  Range(written[c]) \cup Range(evald[c]) \cup Queued(c)
    \cup (IF hpc[c] = "write" THEN {wquote[c].seq} ELSE {})

\* C24: within a session no tick is duplicated. A tick is written at most
\* once and evaluated at most once, and never both; the ticks of different
\* sessions are different ticks, all of them ticks the pump sent; and the
\* number written plus evaluated plus still held grows only, and by one, in a
\* step that enqueues a tick for that session, so written plus evaluated never
\* exceeds enqueued.
C24_NoTickDuplicated ==
  /\ [](/\ \A c \in Conns :
             /\ Cardinality(Range(written[c])) = Len(written[c])
             /\ Cardinality(Range(evald[c])) = Len(evald[c])
             /\ Range(written[c]) \cap Range(evald[c]) = {}
             /\ Cardinality(Held(c)) = Accounted(c)
             /\ Held(c) \subseteq 1..ticksSent
        /\ \A c \in Conns : \A d \in Conns \ {c} : Held(c) \cap Held(d) = {}
        /\ Accounted("c1") + Accounted("c2") <= ticksSent)
  /\ [][\A c \in Conns :
          Accounted(c)' <=
            Accounted(c) + (IF ticksSent' = ticksSent + 1
                               /\ Len(quoteCh'[c]) = Len(quoteCh[c]) + 1
                            THEN 1 ELSE 0)]_vars

\* Both ticks went to one session: one was written, the other evaluated, and
\* nothing is left in the channel.
C24_Witness ==
  \E c \in Conns :
    /\ Len(written[c]) = 1 /\ Len(evald[c]) = 1
    /\ quoteCh[c] = <<>> /\ hpc[c] = "loop"
    /\ ticksSent = 2

====
